---- MODULE Spec2Model ----
(***************************************************************************)
(* Content-generation pipeline of EZWAI SMM: the V4 orchestrator           *)
(* (openai_integration_v4.create_blog_post_with_images_v4), the image      *)
(* generator it calls twice (generate_images_with_seedream), the two       *)
(* layout strategies, and the caller app_v3.create_blog_post_v3.           *)
(*                                                                         *)
(* Image references are integers: None is 0, the ephemeral URL produced    *)
(* for section prompt k is SectionUrl(k), the embedded form of URL u is    *)
(* B64(u) and its permanent CMS form is Perm(u).  An HTML document is a    *)
(* record                                                                  *)
(* [none, toks]: none says the value is Python's None, toks is the set of  *)
(* substrings of interest the text contains (markers and image             *)
(* references); the empty string has no token, every real document has     *)
(* TextMarker.                                                             *)
(*                                                                         *)
(* Five more specifications share the variables: TemplateSpec is           *)
(* magazine_formatter.apply_magazine_styling on its own, RequestSpec the   *)
(* route app_v3.create_test_post with the credit system around it,         *)
(* SchedulerSpec scheduler_v3.check_and_trigger_jobs, WebhookSpec the      *)
(* deliveries of a checkout event to app_v3.stripe_webhook, and AuthSpec   *)
(* the verification code of one user.                                      *)
(***************************************************************************)
EXTENDS Integers, Sequences, FiniteSets, TLC

\* ---------------------------------------------------------------- bounds
MaxSections == 2   \* most section prompts / article sections in one run
MaxPolls == 2      \* most status reloads of one prediction before the deadline
MaxComponents == 2 \* most components in the article handed to the template
MaxRequests == 2   \* article-generation requests of the user in flight together
MaxCredits == 2    \* largest credit balance the user starts with
MaxClock == 6      \* last minute of the day the scheduler is observed at
MaxChecks == 2     \* scheduler checks that can be running at the same time

\* ------------------------------------------------------- program constants
max_retries_two == 1 + 1
max_retries == 1   \* "Try once, retry once if timeout"

None == 0
StyleMarker == 1001
BackgroundImageMarker == 1002
TextMarker == 1003

\* The ephemeral URL of the hero image, and of the image of section prompt k.
HeroUrl == 1
SectionUrl(k) == 1 + k
B64(u) == u + 100
Perm(u) == u + 200
IsDataUri(t) == t > 100 /\ t < 200

VARIABLES
  pc,                 \* position of the run in the orchestrator / caller
  local_mode,         \* argument local_mode
  api_token,          \* REPLICATE_API_TOKEN is set
  article_data,       \* what generate_clean_article returned
  section_prompts,    \* prompts_data["section_prompts"]
  hero_images,        \* list returned by the hero call
  section_images_tmp, \* list returned by the section call
  hero_image_url,
  section_image_urls,
  claude_html,        \* what format_article_with_claude returned
  template_html,      \* what apply_magazine_styling returned
  template_used,      \* the template strategy was invoked
  final_html,
  save_attempts,      \* backup writes attempted, by stage
  disk,               \* backup files actually on disk, by stage
  ret,                \* what create_blog_post_with_images_v4 returned
  caller_ret,         \* what create_blog_post_v3 returned
  emails,             \* e-mails sent by the caller
  story_response,     \* what the model answered to generate_clean_article
  prompt_response,    \* what the model answered to generate_contextual_image_prompts
  requests,           \* client.responses.create calls made, by stage
  wp_media,           \* what the CMS answers to the media uploads of step 3.5
  \* ---- generate_images_with_seedream, one call at a time
  gpc,                \* "idle", "create", "poll", "return", "raised"
  prompts,            \* len(prompts) of the current call
  results,
  i,                  \* index of the current prompt, from 1
  retry_count,
  time_bound,         \* the local name `time` has been bound by `import time`
  polls,              \* reloads of the current prediction
  prediction,         \* index in jobs of the prediction being polled
  jobs,               \* predictions created for the prompt being processed
  slot,               \* that prompt's create calls and outcome
  \* ---- magazine_formatter.apply_magazine_styling, called on its own
  tpl_pc,             \* "idle", "components", "done"
  h2_count,           \* h2 headings of article_data["html"]
  components,         \* the components processed by the loop so far
  soup,               \* the parsed article: its tags in document order
  styled_html,        \* the assembled layout
  \* ---- app_v3.create_test_post, the requests of one user
  credit_balance,           \* users.credit_balance, as committed
  total_articles_generated, \* users.total_articles_generated, as committed
  is_admin,                 \* users.is_admin
  rq,                       \* each request: its position and its locals
  \* ---- scheduler_v3.check_and_trigger_jobs, the checks over one user's day
  clock,                    \* the latest reading of datetime.now(), in minutes
  day_schedule,             \* schedule[current_day] of the user: time1, time2
  completed_job,            \* rows of the completed_job table
  chk,                      \* each check: its position and its locals
  pipeline_runs,            \* create_blog_post calls started, by slot time
  \* ---- app_v3.stripe_webhook, the deliveries of checkout.session.completed
  wh,                       \* each delivery: its position and its locals
  purchases,                \* 'purchase' rows of credit_transactions, by payment intent
  \* ---- the verification code of one user
  verification_code,
  verification_code_expiry,
  verification_attempts,
  email_verified,
  utc_now,                  \* datetime.now(timezone.utc), in minutes
  response                  \* the last response of the verification routes

genVars == <<gpc, prompts, results, i, retry_count, time_bound, polls, prediction, jobs, slot>>
runVars == <<local_mode, api_token, article_data, section_prompts, hero_images,
             section_images_tmp, hero_image_url, section_image_urls, claude_html,
             template_html, template_used, final_html, save_attempts, disk, ret,
             caller_ret, emails, story_response, prompt_response, requests, wp_media>>
llmVars == <<story_response, prompt_response, requests>>
pipelineVars == <<pc, runVars, genVars>>
tplVars == <<tpl_pc, h2_count, components, soup, styled_html>>
reqVars == <<credit_balance, total_articles_generated, is_admin, rq>>
dbVars == <<credit_balance, total_articles_generated>>
schedVars == <<clock, day_schedule, completed_job, chk, pipeline_runs>>
payVars == <<wh, purchases>>
userVars == <<verification_code, verification_code_expiry, verification_attempts, email_verified>>
authVars == <<userVars, utc_now, response>>
envVars == <<tplVars, reqVars, schedVars, payVars, authVars>>
vars == <<pipelineVars, tplVars, reqVars, schedVars, payVars, authVars>>

\* ===================================================================
\* generate_images_with_seedream
\* ===================================================================

NoSlot == [creates |-> 0, outcome |-> "pending"]

\* A slot is finished with value val: results.append(val); image_generated = True,
\* and the for loop moves to the next prompt or the function returns.
FinishSlot(val, sl) ==
  /\ results' = Append(results, val)
  /\ slot' = [sl EXCEPT !.outcome = IF val = None THEN "null" ELSE "url"]
  /\ IF i < prompts
       THEN /\ i' = i + 1
            /\ retry_count' = 0
            /\ gpc' = "create"
       ELSE /\ i' = i
            /\ retry_count' = retry_count
            /\ gpc' = "return"

\* except Exception as e: retry after time.sleep(2), or give the slot up.
\* time.sleep is reached through the function-local name `time`, which is bound
\* only once the `import time` after predictions.create has run in this call.
ExceptHandler(sl) ==
  IF retry_count < max_retries
    THEN IF time_bound
           THEN /\ retry_count' = retry_count + 1
                /\ gpc' = "create"
                /\ slot' = sl
                /\ UNCHANGED <<results, i>>
           ELSE /\ gpc' = "raised"
                /\ retry_count' = retry_count + 1
                /\ slot' = sl
                /\ UNCHANGED <<results, i>>
    ELSE FinishSlot(None, sl)

\* Entry of the function with n prompts.
GenStart(n) ==
  /\ prompts' = n
  /\ results' = IF api_token THEN <<>> ELSE [k \in 1..n |-> None]
  /\ gpc' = IF api_token /\ n > 0 THEN "create" ELSE "return"
  /\ i' = 1
  /\ retry_count' = 0
  /\ time_bound' = FALSE
  /\ polls' = 0
  /\ prediction' = 0
  /\ jobs' = <<>>
  /\ slot' = NoSlot

\* Locals of the call die when the orchestrator has taken the result.
GenReset ==
  /\ gpc' = "idle"
  /\ prompts' = 0
  /\ results' = <<>>
  /\ i' = 1
  /\ retry_count' = 0
  /\ time_bound' = FALSE
  /\ polls' = 0
  /\ prediction' = 0
  /\ jobs' = <<>>
  /\ slot' = NoSlot

\* One more predictions.create call for the current prompt.
CountedCreate ==
  IF retry_count = 0
    THEN [creates |-> 1, outcome |-> "pending"]
    ELSE [slot EXCEPT !.creates = @ + 1]

\* replicate.predictions.create: a new prediction, or an API error.
Create ==
  /\ gpc = "create"
  /\ \E ok \in BOOLEAN :
       IF ok
         THEN /\ jobs' = Append(IF retry_count = 0 THEN <<>> ELSE jobs,
                              [attempt |-> retry_count, timedOut |-> FALSE,
                               cancels |-> 0, repolled |-> FALSE])
              /\ prediction' = Len(jobs')
              /\ slot' = CountedCreate
              /\ time_bound' = TRUE
              /\ polls' = 0
              /\ gpc' = "poll"
              /\ UNCHANGED <<results, i, retry_count>>
         ELSE /\ ExceptHandler(CountedCreate)
              /\ jobs' = IF retry_count = 0 THEN <<>> ELSE jobs
              /\ prediction' = IF retry_count = 0 THEN 0 ELSE prediction
              /\ UNCHANGED <<time_bound, polls>>
  /\ UNCHANGED <<pc, runVars, envVars, prompts>>

Reloaded == [jobs EXCEPT ![prediction].repolled = @ \/ jobs[prediction].timedOut]

\* prediction.reload() inside the deadline: one of the statuses, or an API error.
Poll ==
  /\ gpc = "poll"
  /\ polls < MaxPolls
  /\ jobs' = Reloaded
  /\ \E status \in {"processing", "succeeded", "succeeded_empty", "failed", "canceled", "error"} :
       CASE status = "processing" ->
              /\ polls' = polls + 1
              /\ UNCHANGED <<gpc, results, i, retry_count, slot>>
         [] status = "succeeded" ->
              /\ FinishSlot(IF pc = "hero_images" THEN HeroUrl ELSE SectionUrl(i), slot)
              /\ polls' = polls + 1
         [] status \in {"succeeded_empty", "failed", "canceled"} ->
              /\ FinishSlot(None, slot)
              /\ polls' = polls + 1
         [] status = "error" ->
              /\ ExceptHandler(slot)
              /\ polls' = polls + 1
  /\ UNCHANGED <<pc, runVars, envVars, prompts, time_bound, prediction>>

\* The while loop's else branch: the deadline passed; cancel, then retry with a
\* new prediction or give the slot up.
TimedOut_NoCancel ==
  /\ gpc = "poll"
  /\ polls >= 1
  /\ jobs' = [jobs EXCEPT ![prediction].timedOut = TRUE]
  /\ IF retry_count < max_retries
       THEN /\ retry_count' = retry_count + 1
            /\ gpc' = "create"
            /\ UNCHANGED <<results, i, slot>>
       ELSE FinishSlot(None, slot)
  /\ UNCHANGED <<pc, runVars, envVars, prompts, time_bound, prediction, polls>>

TimedOut ==
  /\ gpc = "poll"
  /\ polls >= 1
  /\ jobs' = [jobs EXCEPT ![prediction].timedOut = TRUE,
                          ![prediction].cancels = @ + 1]  \* cancel() returns or raises; both are swallowed
  /\ IF retry_count < max_retries
       THEN /\ retry_count' = retry_count + 1
            /\ gpc' = "create"
            /\ UNCHANGED <<results, i, slot>>
       ELSE FinishSlot(None, slot)
  /\ UNCHANGED <<pc, runVars, envVars, prompts, time_bound, prediction, polls>>

\* ===================================================================
\* HTML documents
\* ===================================================================
NoHtml == [none |-> TRUE, toks |-> {}]
EmptyStr == [none |-> FALSE, toks |-> {}]
Html(T) == [none |-> FALSE, toks |-> T \cup {TextMarker}]
\* `if not final_html`: None and the empty string are falsy.
Falsy_NoneOnly(h) == h.none
Falsy(h) == h.none \/ h.toks = {}
Contains(h, t) == t \in h.toks
Replace(h, old, new) == IF old \in h.toks THEN Html((h.toks \ {old}) \cup {new}) ELSE h
Range(s) == {s[k] : k \in 1..Len(s)}
Min(a, b) == IF a < b THEN a ELSE b

RECURSIVE Compact(_)
\* [x for x in s if x]
Compact(s) ==
  IF s = <<>> THEN <<>>
  ELSE IF Head(s) = None THEN Compact(Tail(s)) ELSE <<Head(s)>> \o Compact(Tail(s))

\* ===================================================================
\* create_blog_post_with_images_v4
\* ===================================================================
NoArticle == [draft |-> FALSE, typed |-> FALSE, layoutable |-> FALSE, sections |-> 0]
NoPrompts == [n |-> 0, keyed |-> FALSE]
NoResult == [ok |-> FALSE, content |-> NoHtml, hero_image_url |-> None,
             section_images |-> <<>>, all_images |-> <<>>]
NotReturned == [result |-> NoResult, error |-> "none", raised |-> FALSE]

Return(res, err) == [result |-> res, error |-> err, raised |-> FALSE]

\* except Exception as e: return None, str(e)
Caught_Escapes(e) == [result |-> NoResult, error |-> "none", raised |-> TRUE]
Caught(e) == Return(NoResult, e)

ErrTime == "cannot access local variable 'time' where it is not associated with a value"
ErrReplace == "replace() argument 1 must be str, not None"
ErrHeroDownload == "Hero image download failed (URL may have expired)"
ErrBothFormat == "Both Claude and template formatting failed"

\* ---------------------------------------------------------- STEP 1
\* story_generation.generate_clean_article.  The answer of the model is
\* an API error, a text shorter than 100 characters, text that is not JSON,
\* or a JSON object with some of the keys of the article shape.
ArticleShape == {"title", "html", "executive_summary", "components"}
required_fields == {"title", "html", "components"}
NoResponse == [kind |-> "none", keys |-> {}]
StoryResponses ==
  {[kind |-> k, keys |-> {}] : k \in {"api_error", "short", "bad_json"}}
    \cup {[kind |-> "json", keys |-> K] : K \in SUBSET ArticleShape}

\* The function returns the parsed object when every required field is in
\* it, and None otherwise.
ReturnsDraft(resp) == resp.kind = "json" /\ required_fields \subseteq resp.keys

\* The locals of a run before its first step.
PipelineStart ==
  /\ pc = "article"
  /\ article_data = NoArticle
  /\ section_prompts = NoPrompts
  /\ hero_images = <<>>
  /\ section_images_tmp = <<>>
  /\ hero_image_url = None
  /\ section_image_urls = <<>>
  /\ claude_html = NoHtml
  /\ template_html = NoHtml
  /\ template_used = FALSE
  /\ final_html = NoHtml
  /\ save_attempts = {}
  /\ disk = {}
  /\ ret = NotReturned
  /\ caller_ret = NotReturned
  /\ emails = 0
  /\ story_response = NoResponse
  /\ prompt_response = "none"
  /\ requests = [story |-> 0, prompts |-> 0]
  /\ wp_media = "not asked"
  /\ gpc = "idle"
  /\ prompts = 0
  /\ results = <<>>
  /\ i = 1
  /\ retry_count = 0
  /\ time_bound = FALSE
  /\ polls = 0
  /\ prediction = 0
  /\ jobs = <<>>
  /\ slot = NoSlot

\* No run in progress.
PipelineIdle ==
  /\ local_mode = FALSE
  /\ api_token = FALSE
  /\ PipelineStart

NoLayout == [hero |-> None, body |-> <<>>]
TemplateIdle ==
  /\ tpl_pc = "idle"
  /\ h2_count = 0
  /\ components = <<>>
  /\ soup = <<>>
  /\ styled_html = NoLayout

ARTICLE_COST == 1
Requests == 1..MaxRequests
NewRequest ==
  [pc |-> "start", manual_topic |-> "", credit_balance |-> 0,
   total_articles_generated |-> 0, perplexity_research |-> "", post |-> FALSE,
   error |-> "", status |-> 0,
   \* what the request has done so far
   deducted |-> FALSE, refund_calls |-> 0, research_failed |-> FALSE,
   generator_calls |-> 0, blog_post_idea |-> ""]

\* No request has been received.
RequestIdle ==
  /\ credit_balance = 0
  /\ total_articles_generated = 0
  /\ is_admin = FALSE
  /\ rq = [r \in Requests |-> NewRequest]

NoTime == -1   \* an empty time slot, a NULL completed_time
SlotTimes == {0, MaxClock}   \* the times of day a slot can be set to
Checks == 1..MaxChecks
IdleCheck == [pc |-> "idle", now |-> 0, time_slot |-> 1]

\* The scheduler has not been started.
SchedulerIdle ==
  /\ clock = 0
  /\ day_schedule = [time1 |-> NoTime, time2 |-> NoTime]
  /\ completed_job = {}
  /\ chk = [c \in Checks |-> IdleCheck]
  /\ pipeline_runs = [t \in SlotTimes |-> 0]

\* ---- the Stripe webhook and the verification code, before anything happened
MaxDeliveries == 2
MaxMinutes == 11
MaxSubmissions == 4

Deliveries == 1..MaxDeliveries
NoSession == [payment_intent |-> "", credit_amount |-> 0]
IdleDelivery == [pc |-> "idle", session |-> NoSession, credit_balance |-> 0]
DoneDelivery == [IdleDelivery EXCEPT !.pc = "done"]

\* Two checkout sessions of the purchase route: the payment intent and
\* metadata['credit_amount'], in cents (never below the minimum purchase).
Sessions ==
  {[payment_intent |-> "pi_a", credit_amount |-> 1000],
   [payment_intent |-> "pi_b", credit_amount |-> 10000]}
PaymentIntents == {s.payment_intent : s \in Sessions}

WebhookIdle ==
  /\ wh = [d \in Deliveries |-> IdleDelivery]
  /\ purchases = [p \in PaymentIntents |-> 0]

NoCode == ""
Codes == {"111111", "222222"}
NoAnswer == [route |-> "", verified |-> FALSE, message |-> ""]

\* A user that never registered a code.
AuthIdle ==
  /\ verification_code = NoCode
  /\ verification_code_expiry = NoTime
  /\ verification_attempts = 0
  /\ email_verified = FALSE
  /\ utc_now = 0
  /\ response = NoAnswer

Init ==
  /\ WebhookIdle
  /\ AuthIdle
  /\ local_mode \in BOOLEAN
  /\ api_token \in BOOLEAN
  /\ PipelineStart
  /\ TemplateIdle
  /\ RequestIdle
  /\ SchedulerIdle

\* STEP 1 and SAVE POINT #1: generate_clean_article, the log line that reads
\* c['type'] of every component, then _save_raw_article.
GenerateArticle ==
  /\ pc = "article"
  /\ UNCHANGED <<envVars, wp_media>>
  /\ \E client_ok \in BOOLEAN :
       IF ~client_ok
         THEN /\ ret' = Caught("OPENAI_API_KEY not set.")
              /\ pc' = "returned"
              /\ UNCHANGED <<article_data, save_attempts, disk, story_response, requests>>
         ELSE \E resp \in StoryResponses :
              /\ story_response' = resp
              /\ requests' = [requests EXCEPT !.story = @ + 1]
              /\ IF ~ReturnsDraft(resp)
                   THEN /\ ret' = Return(NoResult, "Story generation failed")
                        /\ pc' = "returned"
                        /\ UNCHANGED <<article_data, save_attempts, disk>>
                   ELSE \E typed \in BOOLEAN, layoutable \in BOOLEAN,
                           sections \in 0..MaxSections, written \in BOOLEAN :
                        /\ article_data' = [draft |-> TRUE, typed |-> typed,
                                            layoutable |-> layoutable, sections |-> sections]
                        /\ IF typed
                             THEN /\ save_attempts' = save_attempts \cup {"after_step1"}
                                  /\ disk' = IF written THEN disk \cup {"after_step1"} ELSE disk
                                  /\ pc' = "prompts"
                                  /\ ret' = ret
                             ELSE /\ written
                                  /\ ret' = Caught("'type'")
                                  /\ pc' = "returned"
                                  /\ UNCHANGED <<save_attempts, disk>>
  /\ UNCHANGED <<local_mode, api_token, section_prompts, hero_images, section_images_tmp,
                 hero_image_url, section_image_urls, claude_html, template_html, template_used,
                 final_html, caller_ret, emails, prompt_response, genVars>>

\* ---------------------------------------------------------- STEP 2
\* image_prompt_generator.generate_contextual_image_prompts returns None for
\* an API error, an empty answer, text that holds no JSON object and an object
\* without hero_prompt or section_prompts; otherwise it returns the object,
\* whatever the number of its section prompts.
PromptFailures == {"api_error", "empty", "bad_json", "bad_structure"}

\* STEP 2: generate_contextual_image_prompts, then the hero call of STEP 3.
GeneratePrompts ==
  /\ pc = "prompts"
  /\ UNCHANGED <<envVars, wp_media>>
  /\ requests' = [requests EXCEPT !.prompts = @ + 1]
  /\ \E kind \in PromptFailures \cup {"json"} :
       /\ prompt_response' = kind
       /\ IF kind \in PromptFailures
            THEN /\ ret' = Return(NoResult, "Image prompt generation failed")
                 /\ pc' = "returned"
                 /\ UNCHANGED <<section_prompts, genVars>>
            ELSE \E n \in 0..MaxSections, keyed \in BOOLEAN :
                 /\ (n = 0 => keyed)   \* an empty list has no entry that can lack a key
                 /\ section_prompts' = [n |-> n, keyed |-> keyed]
                 /\ GenStart(1)
                 /\ pc' = "hero_images"
                 /\ ret' = ret
  /\ UNCHANGED <<local_mode, api_token, article_data, hero_images, section_images_tmp,
                 hero_image_url, section_image_urls, claude_html, template_html, template_used,
                 final_html, save_attempts, disk, caller_ret, emails, story_response>>

\* hero_images[0] if hero_images else None; the list comprehension over
\* sp["prompt"]; then the section call.
HeroImagesReturn ==
  /\ pc = "hero_images"
  /\ UNCHANGED <<llmVars, envVars, wp_media>>
  /\ gpc \in {"return", "raised"}
  /\ IF gpc = "raised"
       THEN /\ ret' = Caught(ErrTime)
            /\ pc' = "returned"
            /\ GenReset
            /\ UNCHANGED hero_images
       ELSE /\ hero_images' = results
            /\ IF section_prompts.keyed
                 THEN /\ GenStart(section_prompts.n)
                      /\ pc' = "section_images"
                      /\ ret' = ret
                 ELSE /\ ret' = Caught("'prompt'")
                      /\ pc' = "returned"
                      /\ GenReset
  /\ UNCHANGED <<local_mode, api_token, article_data, section_prompts, section_images_tmp,
                 hero_image_url, section_image_urls, claude_html, template_html, template_used,
                 final_html, save_attempts, disk, caller_ret, emails>>

\* hero_images[0] if hero_images else None
hero_image_tmp == IF Len(hero_images) > 0 THEN hero_images[1] ELSE None

get_jwt_token == None   \* wordpress_integration.get_jwt_token returns None

\* _upload_media_to_wordpress: the media record's source_url, or None.
UploadMedia(tmp_url, upload_ok) ==
  IF get_jwt_token = None THEN None
  ELSE IF upload_ok THEN Perm(tmp_url) ELSE None

\* persist_image_to_wordpress
PersistImage(tmp_url, upload_ok) ==
  IF tmp_url = None THEN None ELSE UploadMedia(tmp_url, upload_ok)

\* STEP 3.5: keep the ephemeral URLs (local mode) or persist them to the CMS.
SectionImagesReturn ==
  /\ pc = "section_images"
  /\ UNCHANGED <<llmVars, envVars>>
  /\ gpc \in {"return", "raised"}
  /\ GenReset
  /\ IF gpc = "raised"
       THEN /\ ret' = Caught(ErrTime)
            /\ pc' = "returned"
            /\ UNCHANGED <<section_images_tmp, hero_image_url, section_image_urls, wp_media>>
       ELSE /\ section_images_tmp' = results
            /\ IF local_mode
                 THEN /\ hero_image_url' = hero_image_tmp
                      /\ section_image_urls' = results
                      /\ pc' = "layout"
                      /\ ret' = ret
                      /\ UNCHANGED wp_media
                 ELSE \E up \in [0..Len(results) -> BOOLEAN] :
                      LET hero == PersistImage(hero_image_tmp, up[0])
                          wp == [k \in 1..Len(results) |-> PersistImage(results[k], up[k])]
                      IN /\ wp_media' = IF \A k \in 0..Len(results) : up[k]
                                        THEN "accepts" ELSE "refuses"
                         /\ IF hero = None
                           THEN /\ ret' = Return(NoResult, "Hero image upload failed")
                                /\ pc' = "returned"
                                /\ UNCHANGED <<hero_image_url, section_image_urls>>
                           ELSE /\ hero_image_url' = hero
                                /\ section_image_urls' = Compact(wp)
                                /\ pc' = "layout"
                                /\ ret' = ret
  /\ UNCHANGED <<local_mode, api_token, article_data, section_prompts, hero_images,
                 claude_html, template_html, template_used, final_html, save_attempts, disk,
                 caller_ret, emails>>

\* ------------------------------------------------------------ STEP 4
\* section_image_mappings: heading k of the prompt set paired with URL k.
Mappings_Shifted ==
  LET urls == Compact(section_image_urls)
  IN [k \in 1..Min(section_prompts.n, Len(urls)) |-> urls[k]]

Mappings == [k \in 1..Min(section_prompts.n, Len(section_image_urls)) |-> section_image_urls[k]]

\* What format_article_with_claude can return: None (no key, API error), the
\* empty string, or an opaque document that uses any of the markers and images.
ClaudeOutputs(hero, secs) ==
  {NoHtml, EmptyStr} \cup
  {Html(m \cup im) : m \in SUBSET {StyleMarker, BackgroundImageMarker},
                     im \in {{}, {hero} \ {None}, Range(secs), ({hero} \ {None}) \cup Range(secs)}}

\* apply_magazine_styling when nothing raises: inline styles, the hero block
\* with background-image: url('<hero>'), and a section-header block for every
\* mapping whose heading is an h2 of the article and whose URL is not None.
\* The prompt set names the article's h2 headings in order; a prompt beyond
\* the article's sections names a heading the article does not have.
TemplateLayout(hero, mappings) ==
  Html({StyleMarker, BackgroundImageMarker} \cup ({hero} \ {None})
       \cup {mappings[k] : k \in {j \in 1..Len(mappings) :
                                   j <= article_data.sections /\ mappings[j] # None}})

\* apply_magazine_styling's except branch: the raw article under a styled
\* error banner, if the emergency file could be written, else None.
TemplateFallback(written) == IF written THEN Html({StyleMarker}) ELSE NoHtml

Layout ==
  /\ pc = "layout"
  /\ UNCHANGED <<llmVars, envVars, wp_media>>
  /\ \E c \in ClaudeOutputs(hero_image_url, Compact(Mappings)), written \in BOOLEAN :
       /\ claude_html' = c
       /\ IF Falsy(c)
            THEN LET t == IF article_data.layoutable
                            THEN TemplateLayout(hero_image_url, Mappings)
                            ELSE TemplateFallback(written)
                 IN /\ template_used' = TRUE
                    /\ template_html' = t
                    /\ (article_data.layoutable => written)
                    /\ save_attempts' = IF article_data.layoutable THEN save_attempts
                                        ELSE save_attempts \cup {"emergency"}
                    /\ disk' = IF ~article_data.layoutable /\ written
                                 THEN disk \cup {"emergency"} ELSE disk
                    /\ IF Falsy(t)
                         THEN /\ ret' = Return(NoResult, ErrBothFormat)
                              /\ pc' = "returned"
                              /\ UNCHANGED final_html
                         ELSE /\ final_html' = t
                              /\ pc' = IF local_mode THEN "embed" ELSE "validate"
                              /\ ret' = ret
            ELSE /\ written
                 /\ final_html' = c
                 /\ pc' = IF local_mode THEN "embed" ELSE "validate"
                 /\ UNCHANGED <<template_used, template_html, save_attempts, disk, ret>>
  /\ UNCHANGED <<local_mode, api_token, article_data, section_prompts, hero_images,
                 section_images_tmp, hero_image_url, section_image_urls, caller_ret, emails,
                 genVars>>

\* ---------------------------------------------------------- STEP 4.5
\* _download_and_convert_to_base64: None for None (the slice of None raises
\* inside its try) and for a failed download.
Download_NoneUnchecked(url, ok) == IF ~ok THEN None ELSE B64(url)
Download(url, ok) == IF url = None \/ ~ok THEN None ELSE B64(url)

RECURSIVE ReplaceAll(_, _, _, _)
\* for i, section_url in enumerate(section_image_urls):
\*     if i < len(section_base64_list): final_html.replace(section_url, list[i])
ReplaceAll(h, urls, b64, k) ==
  IF k > Len(urls) THEN h
  ELSE ReplaceAll(IF k <= Len(b64) THEN Replace(h, urls[k], b64[k]) ELSE h, urls, b64, k + 1)

\* str.replace(None, ...) raises TypeError.
ReplaceRaises(urls, b64) == \E k \in 1..Len(urls) : k <= Len(b64) /\ urls[k] = None

Embed ==
  /\ pc = "embed"
  /\ UNCHANGED <<llmVars, envVars, wp_media>>
  /\ \E hero_ok \in BOOLEAN, dl \in [1..Len(section_image_urls) -> BOOLEAN] :
       LET hero_base64 == Download(hero_image_url, hero_ok)
           section_base64_list ==
             Compact([k \in 1..Len(section_image_urls) |-> Download(section_image_urls[k], dl[k])])
       IN IF hero_base64 = None
            THEN /\ \A k \in 1..Len(section_image_urls) : dl[k]
                 /\ ret' = Return(NoResult, ErrHeroDownload)
                 /\ pc' = "returned"
                 /\ UNCHANGED <<final_html, hero_image_url, section_image_urls>>
            ELSE IF ReplaceRaises(section_image_urls, section_base64_list)
                   THEN /\ ret' = Caught(ErrReplace)
                        /\ pc' = "returned"
                        /\ UNCHANGED <<final_html, hero_image_url, section_image_urls>>
                   ELSE /\ final_html' = ReplaceAll(Replace(final_html, hero_image_url, hero_base64),
                                                    section_image_urls, section_base64_list, 1)
                        /\ hero_image_url' = hero_base64
                        /\ section_image_urls' = section_base64_list
                        /\ pc' = "validate"
                        /\ ret' = ret
  /\ UNCHANGED <<local_mode, api_token, article_data, section_prompts, hero_images,
                 section_images_tmp, claude_html, template_html, template_used, save_attempts,
                 disk, caller_ret, emails, genVars>>

\* ------------------------------------------- SAVE POINT #2, FINAL VALIDATION
HasDataUri(h) == \E t \in h.toks : IsDataUri(t)

\* The error the gate returns, "none" when every check passes.
ValidationGate_NoStyleCheck(h, local, hero) ==
  IF local
    THEN IF ~Contains(h, BackgroundImageMarker) \/ ~HasDataUri(h)
           THEN "Hero section missing" ELSE "none"
    ELSE IF ~Contains(h, BackgroundImageMarker) \/ ~Contains(h, hero)
           THEN "Hero section missing" ELSE "none"

ValidationGate(h, local, hero) ==
  IF ~Contains(h, StyleMarker) THEN "CSS styling missing"
  ELSE IF local
    THEN IF ~Contains(h, BackgroundImageMarker) \/ ~HasDataUri(h)
           THEN "Hero section missing" ELSE "none"
    ELSE IF ~Contains(h, BackgroundImageMarker) \/ ~Contains(h, hero)
           THEN "Hero section missing" ELSE "none"

Validate ==
  /\ pc = "validate"
  /\ UNCHANGED <<llmVars, envVars, wp_media>>
  /\ \E written \in BOOLEAN :
       /\ save_attempts' = save_attempts \cup {"formatted"}
       /\ disk' = IF written THEN disk \cup {"formatted"} ELSE disk
  /\ LET verdict == ValidationGate(final_html, local_mode, hero_image_url)
     IN ret' = IF verdict = "none"
                 THEN Return([ok |-> TRUE, content |-> final_html,
                              hero_image_url |-> hero_image_url,
                              section_images |-> section_image_urls,
                              all_images |-> <<hero_image_url>> \o section_image_urls], "none")
                 ELSE Return(NoResult, verdict)
  /\ pc' = "returned"
  /\ UNCHANGED <<local_mode, api_token, article_data, section_prompts, hero_images,
                 section_images_tmp, hero_image_url, section_image_urls, claude_html,
                 template_html, template_used, final_html, caller_ret, emails, genVars>>

\* ===================================================================
\* app_v3.create_blog_post_v3, from the return of the V4 pipeline on
\* ===================================================================
CallerValidation(post) ==
  IF ~Contains(post.content, StyleMarker) THEN "Article missing magazine styling"
  ELSE IF ~Contains(post.content, BackgroundImageMarker)
          \/ ~Contains(post.content, post.hero_image_url)
    THEN "Article missing hero section"
  ELSE IF \E k \in 1..Len(post.all_images) :
            post.all_images[k] # None /\ ~Contains(post.content, post.all_images[k])
    THEN "Not all images embedded in article"
  ELSE "none"

Caller ==
  /\ pc = "returned"
  /\ UNCHANGED <<llmVars, envVars, wp_media>>
  /\ pc' = "done"
  /\ IF ret.raised
       THEN /\ caller_ret' = [result |-> NoResult, error |-> "none", raised |-> TRUE]
            /\ UNCHANGED <<emails, save_attempts, disk>>
       ELSE IF ret.error # "none"
         THEN /\ caller_ret' = Return(NoResult, ret.error)
              /\ UNCHANGED <<emails, save_attempts, disk>>
       ELSE IF ~ret.result.ok
         THEN /\ caller_ret' = Return(NoResult, "Post processing failed")
              /\ UNCHANGED <<emails, save_attempts, disk>>
       ELSE LET verdict == CallerValidation(ret.result)
            IN IF verdict # "none"
                 THEN /\ caller_ret' = Return(NoResult, verdict)
                      /\ emails' = emails
                      /\ \E written \in BOOLEAN :
                           IF verdict = "Not all images embedded in article"
                             THEN written /\ UNCHANGED <<save_attempts, disk>>
                             ELSE /\ save_attempts' = save_attempts \cup {"emergency_validation"}
                                  /\ disk' = IF written THEN disk \cup {"emergency_validation"}
                                             ELSE disk
                 ELSE \E post_ok \in BOOLEAN, email_sent \in BOOLEAN :
                        /\ emails' = IF email_sent THEN emails + 1 ELSE emails
                        /\ (local_mode => post_ok)
                        /\ caller_ret' =
                             IF local_mode \/ post_ok THEN Return(ret.result, "none")
                             ELSE IF email_sent
                               THEN Return(NoResult, "WordPress upload failed - article emailed to you for manual upload")
                               ELSE Return(NoResult, "WordPress upload failed and email notification failed - contact support")
                        /\ UNCHANGED <<save_attempts, disk>>
  /\ UNCHANGED <<local_mode, api_token, article_data, section_prompts, hero_images,
                 section_images_tmp, hero_image_url, section_image_urls, claude_html,
                 template_html, template_used, final_html, ret, genVars>>

Next ==
  \/ GenerateArticle
  \/ GeneratePrompts
  \/ Create
  \/ Poll
  \/ TimedOut
  \/ HeroImagesReturn
  \/ SectionImagesReturn
  \/ Layout
  \/ Embed
  \/ Validate
  \/ Caller

Spec == Init /\ [][Next]_vars

\* Every step of a run is taken in bounded time: the external calls carry
\* timeouts and the polling loop has a deadline.
FairSpec == Spec /\ WF_vars(Next)

\* ===================================================================
\* magazine_formatter.apply_magazine_styling, called on its own with an
\* article of h2_count sections, a hero image and an image for every section
\* ===================================================================
\* A tag of the parsed document, in document order: an h2 with its text, a
\* paragraph, or the box of a component.  comp is 0 for the article's own tags
\* and k for the tags of the k-th component of the list.
Tag(name, text, comp) == [tag |-> name, text |-> text, comp |-> comp, image |-> None]

RECURSIVE ArticleSoup(_)
\* BeautifulSoup(html_content) after h1.decompose(): a lead paragraph, then
\* every section's h2 and a paragraph.  Heading texts are 1..n.
ArticleSoup(n) ==
  IF n = 0 THEN <<Tag("p", 0, 0)>>
  ELSE ArticleSoup(n - 1) \o <<Tag("h2", n, 0), Tag("p", 0, 0)>>

\* The components of article_data["components"]: a type and one anchor, a
\* 1-based paragraph number or a heading text.  Text 0 and text
\* MaxSections + 1 are headings of no article.
Components ==
  [type : {"pull_quote", "stat_highlight", "case_study", "sidebar"},
   anchor_key : {"insert_after_paragraph", "insert_after_heading"},
   anchor : 0..(MaxSections + 1)]

\* build_pull_quote, build_stat_highlight, build_case_study, build_sidebar:
\* one box; the case study box holds the challenge and solution paragraphs.
\* None of them holds an h2.
ComponentHtml(c, k) ==
  IF c.type = "case_study"
    THEN <<Tag("case_study", 0, k), Tag("p", 0, k), Tag("p", 0, k)>>
    ELSE <<Tag(c.type, 0, k)>>

\* target.insert_after(component_soup)
InsertAfter(s, target, html) == SubSeq(s, 1, target) \o html \o SubSeq(s, target + 1, Len(s))

insert_component_after_paragraph(s, paragraph_index, html) ==
  LET paragraphs == {j \in 1..Len(s) : s[j].tag = "p"}
  IN IF 0 <= paragraph_index /\ paragraph_index < Cardinality(paragraphs)
       THEN InsertAfter(s, CHOOSE j \in paragraphs :
                             Cardinality({q \in paragraphs : q < j}) = paragraph_index, html)
       ELSE s

insert_component_after_heading_AtEnd(s, heading_text, html) ==
  LET matches == {j \in 1..Len(s) : s[j].tag = "h2" /\ s[j].text = heading_text}
  IN IF matches # {}
       THEN InsertAfter(s, CHOOSE j \in matches : \A q \in matches : j <= q, html)
       ELSE s \o html

\* The first h2 whose text equals the anchor gets the component; with no
\* such h2 a warning is logged and the document is left as it is.
insert_component_after_heading(s, heading_text, html) ==
  LET matches == {j \in 1..Len(s) : s[j].tag = "h2" /\ s[j].text = heading_text}
  IN IF matches # {}
       THEN InsertAfter(s, CHOOSE j \in matches : \A q \in matches : j <= q, html)
       ELSE s

\* One iteration of `for component in components`.
ApplyComponent(s, c, k) ==
  IF c.type \in {"pull_quote", "stat_highlight"}
    THEN IF c.anchor_key = "insert_after_paragraph"
           THEN insert_component_after_paragraph(s, c.anchor - 1, ComponentHtml(c, k))
           ELSE s
    ELSE IF c.anchor_key = "insert_after_heading"
           THEN insert_component_after_heading(s, c.anchor, ComponentHtml(c, k))
           ELSE s

\* Every h2 with an image in section_image_map is wrapped in a section-header
\* block; the hero block and the styled body make the layout.
WrapSections(s) ==
  [j \in 1..Len(s) |->
     IF s[j].tag = "h2" THEN [s[j] EXCEPT !.image = SectionUrl(s[j].text)] ELSE s[j]]

AssembleLayout(s) == [hero |-> HeroUrl, body |-> WrapSections(s)]

TemplateInit ==
  /\ WebhookIdle
  /\ AuthIdle
  /\ PipelineIdle
  /\ RequestIdle
  /\ SchedulerIdle
  /\ tpl_pc = "components"
  /\ h2_count \in 0..MaxSections
  /\ components = <<>>
  /\ soup = ArticleSoup(h2_count)
  /\ styled_html = NoLayout

InsertComponent ==
  /\ tpl_pc = "components"
  /\ Len(components) < MaxComponents
  /\ \E c \in Components :
       /\ components' = Append(components, c)
       /\ soup' = ApplyComponent(soup, c, Len(components) + 1)
  /\ UNCHANGED <<tpl_pc, h2_count, styled_html, pipelineVars, payVars, authVars, reqVars, schedVars>>

ApplyMagazineStyling ==
  /\ tpl_pc = "components"
  /\ tpl_pc' = "done"
  /\ styled_html' = AssembleLayout(soup)
  /\ UNCHANGED <<h2_count, components, soup, pipelineVars, payVars, authVars, reqVars, schedVars>>

TemplateNext ==
  \/ InsertComponent
  \/ ApplyMagazineStyling

TemplateSpec == TemplateInit /\ [][TemplateNext]_vars

\* ===================================================================
\* app_v3.create_test_post: the article-generation requests of one user,
\* each served by its own thread and database session.

ResearchKinds == {"http_error", "empty", "text"}

\* The list generate_blog_post_ideas returns: [] when the call ends in an
\* exception or an HTTP error, [content.strip()] otherwise, whatever content is.
generate_blog_post_ideas(kind) ==
  CASE kind = "http_error" -> <<>>
    [] kind = "empty" -> <<"">>
    [] OTHER -> <<"research">>

check_sufficient_credits(balance) == is_admin \/ balance >= ARTICLE_COST

\* What deduct_credits makes of a user object before it commits it.
Deducted(user) ==
  [user EXCEPT !.credit_balance = IF user.is_admin THEN @ ELSE @ - ARTICLE_COST,
               !.total_articles_generated = @ + 1]

\* What refund_credits makes of a user object before it commits it.
Refunded(user) ==
  [user EXCEPT !.credit_balance = @ + ARTICLE_COST,
               !.total_articles_generated = @ - 1]

\* The user row as committed.
UserRow ==
  [credit_balance |-> credit_balance,
   total_articles_generated |-> total_articles_generated,
   is_admin |-> is_admin]

\* deduct_credits on the user object request r loaded: the UPDATE writes the
\* values computed from that object's attributes.
deduct_credits(r) ==
  LET loaded == [UserRow EXCEPT
                   !.credit_balance = IF is_admin THEN @ ELSE rq[r].credit_balance,
                   !.total_articles_generated = rq[r].total_articles_generated]
      user == Deducted(loaded)
  IN /\ credit_balance' = user.credit_balance
     /\ total_articles_generated' = user.total_articles_generated

\* refund_credits: the attributes expired by the last commit are reloaded, so
\* the refund is computed from the committed row.  ok: the commit succeeded.
refund_credits(ok) ==
  IF ok
  THEN /\ credit_balance' = Refunded(UserRow).credit_balance
       /\ total_articles_generated' = Refunded(UserRow).total_articles_generated
  ELSE UNCHANGED dbVars

\* An HTTP error or an empty response of the research API.
ResearchFailed(kind) == kind \in {"http_error", "empty"}

\* The route returns: the locals of the request are gone, the response stays.
Response(r, error, status) ==
  [NewRequest EXCEPT !.pc = "done", !.error = error, !.status = status,
                     !.deducted = rq[r].deducted,
                     !.refund_calls = rq[r].refund_calls,
                     !.research_failed = rq[r].research_failed,
                     !.generator_calls = rq[r].generator_calls,
                     !.blog_post_idea = rq[r].blog_post_idea]

\* The two refund branches and the except branch of the route: refund, then
\* the 500 response.
RefundAndFail(r, ok, error) ==
  /\ refund_credits(ok)
  /\ rq' = [rq EXCEPT ![r] = [Response(r, error, 500) EXCEPT !.refund_calls = @ + 1]]

\* login (the user row is loaded), request parameters, mode choice, credit check.
Preflight(r) ==
  /\ rq[r].pc = "start"
  /\ \/ \E ok \in BOOLEAN : RefundAndFail(r, ok, "An unexpected error occurred")
     \/ /\ UNCHANGED dbVars
        /\ IF check_sufficient_credits(credit_balance)
           THEN \E topic \in {"", "topic"} :
                  rq' = [rq EXCEPT ![r].pc = "deduct",
                                   ![r].manual_topic = topic,
                                   ![r].credit_balance = credit_balance,
                                   ![r].total_articles_generated = total_articles_generated]
           ELSE rq' = [rq EXCEPT ![r] = Response(r, "Insufficient credits", 402)]
  /\ UNCHANGED <<is_admin, pipelineVars, payVars, authVars, tplVars, schedVars>>

\* The commit of deduct_credits expires the attributes of the loaded user.
DeductCredits(r) ==
  /\ rq[r].pc = "deduct"
  /\ \/ /\ deduct_credits(r)
        /\ rq' = [rq EXCEPT ![r].pc = IF rq[r].manual_topic # "" THEN "research"
                                      ELSE "create",
                            ![r].credit_balance = 0,
                            ![r].total_articles_generated = 0,
                            ![r].deducted = TRUE]
     \/ /\ UNCHANGED dbVars
        /\ rq' = [rq EXCEPT ![r] = Response(r, "Credit processing error. Please try again.", 500)]
  /\ UNCHANGED <<is_admin, pipelineVars, payVars, authVars, tplVars, schedVars>>

\* The research call of the route for a manual topic.
Research(r) ==
  /\ rq[r].pc = "research"
  /\ \E kind \in ResearchKinds :
       LET perplexity_research_list == generate_blog_post_ideas(kind)
           seen == [rq EXCEPT ![r].research_failed = @ \/ ResearchFailed(kind)]
       IN
       IF perplexity_research_list = <<>>
       THEN rq' = [seen EXCEPT ![r] = Response(r, "Failed to get Perplexity research", 500),
                               ![r].research_failed = TRUE]
       ELSE rq' = [seen EXCEPT ![r].pc = "create",
                               ![r].perplexity_research = perplexity_research_list[1]]
  /\ UNCHANGED <<dbVars, is_admin, pipelineVars, payVars, authVars, tplVars, schedVars>>

\* The orchestrator is called with blog_post_idea; its first step is the
\* Article Generator.  out is what the pipeline and the delivery made of the run.
CallV4(state, r, blog_post_idea) ==
  \E out \in {"post", "error"} :
    rq' = [state EXCEPT ![r].pc = "respond",
                        ![r].generator_calls = @ + 1,
                        ![r].blog_post_idea = blog_post_idea,
                        ![r].post = (out = "post"),
                        ![r].error = IF out = "post" THEN "" ELSE "generation failed"]

\* create_blog_post_v3 as the route calls it, up to its return: the manual
\* topic or the saved-topics rotation and the research call of the latter.
CreateBlogPostV3(r) ==
  /\ rq[r].pc = "create"
  /\ LET manual_topic == rq[r].perplexity_research IN
     \/ rq' = [rq EXCEPT ![r].pc = "respond", ![r].error = "raised"]
     \/ /\ manual_topic # ""
        /\ CallV4(rq, r, manual_topic)
     \/ /\ manual_topic = ""
        /\ rq' = [rq EXCEPT ![r].pc = "respond",
                            ![r].error = "No valid query found for user"]
     \/ /\ manual_topic = ""
        /\ \E kind \in ResearchKinds :
             LET blog_post_ideas == generate_blog_post_ideas(kind)
                 seen == [rq EXCEPT ![r].research_failed = @ \/ ResearchFailed(kind)]
             IN
             IF blog_post_ideas = <<>>
             THEN rq' = [seen EXCEPT ![r].pc = "respond",
                                     ![r].error = "No blog post ideas generated"]
             ELSE CallV4(seen, r, blog_post_ideas[1])
  /\ UNCHANGED <<dbVars, is_admin, pipelineVars, payVars, authVars, tplVars, schedVars>>

\* What the route does with (post, error), or with the exception.
Respond(r) ==
  /\ rq[r].pc = "respond"
  /\ IF rq[r].error = "raised"
     THEN \E ok \in BOOLEAN : RefundAndFail(r, ok, "An unexpected error occurred")
     ELSE IF rq[r].error # ""
     THEN \E ok \in BOOLEAN : RefundAndFail(r, ok, rq[r].error)
     ELSE IF ~rq[r].post
     THEN \E ok \in BOOLEAN : RefundAndFail(r, ok, "Failed to create the test post.")
     ELSE /\ UNCHANGED dbVars
          /\ rq' = [rq EXCEPT ![r] = Response(r, "", 200)]
  /\ UNCHANGED <<is_admin, pipelineVars, payVars, authVars, tplVars, schedVars>>

RequestInit ==
  /\ WebhookIdle
  /\ AuthIdle
  /\ PipelineIdle
  /\ TemplateIdle
  /\ SchedulerIdle
  /\ credit_balance \in 0..MaxCredits
  /\ total_articles_generated = 0
  /\ is_admin \in BOOLEAN
  /\ rq = [r \in Requests |-> NewRequest]

RequestNext ==
  \E r \in Requests :
    \/ Preflight(r)
    \/ DeductCredits(r)
    \/ Research(r)
    \/ CreateBlogPostV3(r)
    \/ Respond(r)

RequestSpec == RequestInit /\ [][RequestNext]_vars

\* ===================================================================
\* scheduler_v3.check_and_trigger_jobs: the cron-started checks over one day
\* of one user with an enabled schedule.  A check that is still running a
\* pipeline when the next one starts overlaps with it.

WindowBefore == 2   \* start_time = now - timedelta(minutes=2)
WindowAfter == 5    \* end_time = now + timedelta(minutes=5)
RetryAfter == 5     \* time_pending > timedelta(minutes=5)
Week == 7           \* timedelta(days=7)
DayMinutes == 24 * 60

\* The day a time falls on.  completed_time is kept to the day: its only uses
\* are the test for NULL and the one-week comparison of the cleanup.
DayOf(t) == t \div DayMinutes

\* The schedules of the day: 'time1' is set, 'time2' is empty or not earlier.
DaySchedules ==
  {d \in [time1 : SlotTimes, time2 : SlotTimes \cup {NoTime}] :
     d.time2 = NoTime \/ d.time1 <= d.time2}

\* day_schedule[time_slot] for time_slot in ['time1', 'time2']
SlotTime(k) == IF k = 1 THEN day_schedule.time1 ELSE day_schedule.time2

\* start_time <= scheduled_datetime <= end_time
InWindow(now, scheduled) ==
  now - WindowBefore <= scheduled /\ scheduled <= now + WindowAfter

\* CompletedJob.query.filter_by(user_id, scheduled_time)
JobsAt(scheduled) == {j \in completed_job : j.scheduled_time = scheduled}

\* .first(): the row with the lowest id
First(rows) == CHOOSE j \in rows : \A k \in rows : j.id <= k.id

NextId == IF completed_job = {} THEN 1
          ELSE 1 + (CHOOSE n \in {j.id : j \in completed_job} :
                      \A j \in completed_job : j.id <= n)

\* Clean up old completed jobs: a NULL completed_time compares to nothing.
CleanUp(table, now) ==
  LET week_ago == DayOf(now) - Week IN
  {j \in table : ~(j.completed_time # NoTime /\ j.completed_time < week_ago)}

\* The loop over the time slots moves on, table being the job rows as the turn
\* leaves them; after 'time2' come the cleanup and the end of the check.
NextSlot(c, table) ==
  IF chk[c].time_slot = 1
  THEN /\ chk' = [chk EXCEPT ![c].pc = "slot", ![c].time_slot = 2]
       /\ completed_job' = table
  ELSE /\ chk' = [chk EXCEPT ![c] = IdleCheck]
       /\ completed_job' = CleanUp(table, chk[c].now)

\* create_blog_post(user.id) up to the call of the orchestrator, whose first
\* step is the Article Generator: the topic rotation and the research call end
\* the run with an error, or the orchestrator is called.  A check at "running"
\* has called the Article Generator.
create_blog_post(c, table) ==
  /\ pipeline_runs' = [pipeline_runs EXCEPT ![SlotTime(chk[c].time_slot)] = @ + 1]
  /\ \/ NextSlot(c, table)
     \/ \E kind \in ResearchKinds :
          IF generate_blog_post_ideas(kind) = <<>>
          THEN NextSlot(c, table)
          ELSE /\ chk' = [chk EXCEPT ![c].pc = "running"]
               /\ completed_job' = table

\* INSERT of a row for a slot the table already has a row for, without the
\* unique constraint (user_id, scheduled_time).
UniqueViolation_Unconstrained(scheduled) == FALSE

\* INSERT of a row for a slot the table already has a row for: IntegrityError.
UniqueViolation(scheduled) == JobsAt(scheduled) # {}

\* datetime.now(): time has passed since the latest reading, or has not.
Readings == clock..MaxClock

\* now = datetime.now(eastern_tz)
StartCheck(c) ==
  /\ chk[c].pc = "idle"
  /\ \E now \in Readings :
       /\ clock' = now
       /\ chk' = [chk EXCEPT ![c] = [pc |-> "slot", now |-> now, time_slot |-> 1]]
  /\ UNCHANGED <<day_schedule, completed_job, pipeline_runs,
                 pipelineVars, payVars, authVars, tplVars, reqVars>>

\* One turn of the loop up to the branch taken on the job row; the retry
\* branch starts a run.
QueryJob(c) ==
  /\ chk[c].pc = "slot"
  /\ LET now == chk[c].now
         scheduled_datetime == SlotTime(chk[c].time_slot)
         found == JobsAt(scheduled_datetime)
     IN
     IF scheduled_datetime = NoTime \/ ~InWindow(now, scheduled_datetime)
     THEN NextSlot(c, completed_job) /\ UNCHANGED pipeline_runs
     ELSE IF found = {}
     THEN /\ chk' = [chk EXCEPT ![c].pc = "commit"]
          /\ UNCHANGED <<completed_job, pipeline_runs>>
     ELSE IF First(found).completed_time = NoTime
     THEN IF now - scheduled_datetime > RetryAfter
          THEN create_blog_post(c, completed_job)
          ELSE NextSlot(c, completed_job) /\ UNCHANGED pipeline_runs
     ELSE NextSlot(c, completed_job) /\ UNCHANGED pipeline_runs
  /\ UNCHANGED <<clock, day_schedule, pipelineVars, payVars, authVars, tplVars, reqVars>>

\* db.session.add(new_job); db.session.commit(), then the run.  An
\* IntegrityError is an SQLAlchemyError: the session is rolled back and the
\* check is over.
CommitNewJob(c) ==
  /\ chk[c].pc = "commit"
  /\ LET scheduled_datetime == SlotTime(chk[c].time_slot)
         new_job == [id |-> NextId, scheduled_time |-> scheduled_datetime,
                     completed_time |-> NoTime]
     IN
     IF UniqueViolation(scheduled_datetime)
     THEN /\ chk' = [chk EXCEPT ![c] = IdleCheck]
          /\ UNCHANGED <<completed_job, pipeline_runs>>
     ELSE create_blog_post(c, completed_job \cup {new_job})
  /\ UNCHANGED <<clock, day_schedule, pipelineVars, payVars, authVars, tplVars, reqVars>>

\* The orchestrator and the delivery return (post, error); on success the job
\* row of the check is completed.
FinishBlogPost(c) ==
  /\ chk[c].pc = "running"
  /\ LET job == First(JobsAt(SlotTime(chk[c].time_slot))) IN
     \/ NextSlot(c, completed_job) /\ UNCHANGED clock
     \/ \E finished \in Readings :
          /\ clock' = finished
          /\ NextSlot(c, {IF j.id = job.id
                          THEN [j EXCEPT !.completed_time = DayOf(finished)] ELSE j :
                          j \in completed_job})
  /\ UNCHANGED <<day_schedule, pipeline_runs, pipelineVars, payVars, authVars, tplVars, reqVars>>

SchedulerInit ==
  /\ WebhookIdle
  /\ AuthIdle
  /\ PipelineIdle
  /\ TemplateIdle
  /\ RequestIdle
  /\ clock = 0
  /\ day_schedule \in DaySchedules
  /\ completed_job = {}
  /\ chk = [c \in Checks |-> IdleCheck]
  /\ pipeline_runs = [t \in SlotTimes |-> 0]

SchedulerNext ==
  \E c \in Checks :
       \/ StartCheck(c)
       \/ QueryJob(c)
       \/ CommitNewJob(c)
       \/ FinishBlogPost(c)

SchedulerSpec == SchedulerInit /\ [][SchedulerNext]_vars


\* ===================================================================
\* app_v3.stripe_webhook / handle_checkout_completed, credit_system.add_credits_manual
\* Every delivery of a checkout.session.completed event is a request of its own;
\* amounts are in cents.
\* ===================================================================
MIN_PURCHASE == 1000
PRICING_TIERS == <<<<9950, 199>>, <<17500, 175>>, <<37500, 150>>, <<62500, 125>>>>
LastTierPrice == 99   \* the tier whose upper end is float('inf')

\* The for loop over the tiers: the price of the first tier that holds the amount.
TierPrice(purchase_amount) ==
  LET hits == {k \in 1..Len(PRICING_TIERS) : purchase_amount <= PRICING_TIERS[k][1]}
  IN IF hits = {} THEN LastTierPrice
     ELSE PRICING_TIERS[CHOOSE k \in hits : \A j \in hits : k <= j][2]

\* int(purchase_amount / price_per_article)
calculate_credits_from_purchase(purchase_amount) ==
  IF purchase_amount < MIN_PURCHASE THEN 0
  ELSE purchase_amount \div TierPrice(purchase_amount)

\* CreditTransaction.query.filter_by(stripe_payment_intent_id=..., transaction_type='purchase').first()
existing(payment_intent_id) == purchases[payment_intent_id] > 0

\* stripe_webhook: the event is constructed from the payload, or refused (400).
Receive(d) ==
  /\ wh[d].pc = "idle"
  /\ \/ wh' = [wh EXCEPT ![d] = DoneDelivery]
     \/ \E session \in Sessions :
          wh' = [wh EXCEPT ![d].pc = "check", ![d].session = session]
  /\ UNCHANGED <<purchases, reqVars, pipelineVars, tplVars, schedVars, authVars>>

\* handle_checkout_completed up to the call of add_credits_manual: the
\* duplicate check.
CheckDuplicate(d) ==
  /\ wh[d].pc = "check"
  /\ wh' = IF existing(wh[d].session.payment_intent)
           THEN [wh EXCEPT ![d] = DoneDelivery]
           ELSE [wh EXCEPT ![d].pc = "add"]
  /\ UNCHANGED <<purchases, reqVars, pipelineVars, tplVars, schedVars, authVars>>

\* add_credits_manual up to its commit: the user row is loaded and the credits
\* are computed.
LoadUser(d) ==
  /\ wh[d].pc = "add"
  /\ wh' = IF calculate_credits_from_purchase(wh[d].session.credit_amount) = 0
           THEN [wh EXCEPT ![d] = DoneDelivery]
           ELSE [wh EXCEPT ![d].pc = "commit", ![d].credit_balance = credit_balance]
  /\ UNCHANGED <<purchases, reqVars, pipelineVars, tplVars, schedVars, authVars>>

\* user.credit_balance += credits_to_add on the loaded object, the purchase
\* row, and the commit of both.
AddCredits(d) ==
  /\ credit_balance' = wh[d].credit_balance
                       + calculate_credits_from_purchase(wh[d].session.credit_amount)
  /\ purchases' = [purchases EXCEPT ![wh[d].session.payment_intent] = @ + 1]

\* db.session.commit() of add_credits_manual, or its except branch (rollback).
CommitPurchase(d) ==
  /\ wh[d].pc = "commit"
  /\ \/ AddCredits(d)
     \/ UNCHANGED <<credit_balance, purchases>>
  /\ wh' = [wh EXCEPT ![d] = DoneDelivery]
  /\ UNCHANGED <<total_articles_generated, is_admin, rq, pipelineVars, tplVars,
                 schedVars, authVars>>

WebhookInit ==
  /\ PipelineIdle
  /\ TemplateIdle
  /\ SchedulerIdle
  /\ AuthIdle
  /\ WebhookIdle
  /\ credit_balance \in 0..MaxCredits
  /\ total_articles_generated = 0
  /\ is_admin = FALSE
  /\ rq = [r \in Requests |-> NewRequest]

WebhookNext ==
  \E d \in Deliveries :
    \/ Receive(d)
    \/ CheckDuplicate(d)
    \/ LoadUser(d)
    \/ CommitPurchase(d)

WebhookSpec == WebhookInit /\ [][WebhookNext]_vars


\* ===================================================================
\* email_verification.verify_code and the routes around it: app_v3.register,
\* resend_verification, login, verify_email, verify_login, for one user.
\* ===================================================================
TWO_FACTOR_CODE_EXPIRE_MINUTES == 10
TWO_FACTOR_MAX_ATTEMPTS == 3

\* get_code_expiry
get_code_expiry == utc_now + TWO_FACTOR_CODE_EXPIRE_MINUTES

\* is_code_valid, read at time now
is_code_valid(code_expiry, now) ==
  IF code_expiry = NoTime THEN FALSE ELSE now < code_expiry

\* verify_code(user, submitted_code) for a user with the given attempt count.
verify_code(attempts, submitted_code) ==
  IF verification_code = NoCode
  THEN [verified |-> FALSE, message |-> "No verification code found"]
  ELSE IF ~is_code_valid(verification_code_expiry, utc_now)
  THEN [verified |-> FALSE, message |-> "Verification code has expired"]
  ELSE IF attempts >= TWO_FACTOR_MAX_ATTEMPTS
  THEN [verified |-> FALSE, message |-> "Maximum verification attempts exceeded"]
  ELSE IF verification_code = submitted_code
  THEN [verified |-> TRUE, message |-> "Email verified successfully!"]
  ELSE [verified |-> FALSE, message |-> "Invalid code"]

Answer(route, result) ==
  [route |-> route, verified |-> result.verified, message |-> result.message]

\* A new code is stored: generate_verification_code, get_code_expiry,
\* verification_attempts = 0, commit.  The e-mail is sent afterwards.
IssueCode ==
  /\ verification_code' \in Codes
  /\ verification_code_expiry' = get_code_expiry
  /\ verification_attempts' = 0

\* The code is cleared after a successful verification.
ClearCode ==
  /\ verification_code' = NoCode
  /\ verification_code_expiry' = NoTime
  /\ verification_attempts' = 0

\* Time passes between two requests.
Tick ==
  /\ utc_now < MaxMinutes
  /\ utc_now' = utc_now + 1
  /\ UNCHANGED <<userVars, response, payVars, reqVars, pipelineVars, tplVars, schedVars>>

\* POST /api/resend_verification
ResendVerification ==
  /\ IF email_verified
     THEN /\ response' = [route |-> "resend_verification", verified |-> FALSE,
                          message |-> "Email already verified"]
          /\ UNCHANGED userVars
     ELSE /\ IssueCode
          /\ response' = [route |-> "resend_verification", verified |-> FALSE,
                          message |-> "Verification code resent"]
          /\ UNCHANGED email_verified
  /\ UNCHANGED <<utc_now, payVars, reqVars, pipelineVars, tplVars, schedVars>>

\* POST /api/login with the right password.
Login ==
  /\ IF email_verified
     THEN /\ IssueCode
          /\ response' = [route |-> "login", verified |-> FALSE,
                          message |-> "Verification code sent to your email"]
          /\ UNCHANGED email_verified
     ELSE /\ response' = [route |-> "login", verified |-> FALSE,
                          message |-> "Email not verified"]
          /\ UNCHANGED userVars
  /\ UNCHANGED <<utc_now, payVars, reqVars, pipelineVars, tplVars, schedVars>>

\* POST /api/verify_email: the attempt is counted and committed, then the code
\* is verified.
VerifyEmail(code) ==
  /\ verification_attempts < MaxSubmissions
  /\ IF email_verified
     THEN /\ response' = [route |-> "verify_email", verified |-> FALSE,
                          message |-> "Email already verified"]
          /\ UNCHANGED userVars
     ELSE LET result == verify_code(verification_attempts + 1, code) IN
          /\ response' = Answer("verify_email", result)
          /\ IF result.verified
             THEN /\ email_verified' = TRUE
                  /\ ClearCode
             ELSE /\ verification_attempts' = verification_attempts + 1
                  /\ UNCHANGED <<verification_code, verification_code_expiry, email_verified>>
  /\ UNCHANGED <<utc_now, payVars, reqVars, pipelineVars, tplVars, schedVars>>

\* POST /api/verify_login: the attempt is counted and committed, then the code
\* is verified.
VerifyLogin(code) ==
  /\ verification_attempts < MaxSubmissions
  /\ LET result == verify_code(verification_attempts + 1, code) IN
     /\ response' = Answer("verify_login", result)
     /\ IF result.verified
        THEN ClearCode
        ELSE /\ verification_attempts' = verification_attempts + 1
             /\ UNCHANGED <<verification_code, verification_code_expiry>>
  /\ UNCHANGED <<email_verified, utc_now, payVars, reqVars, pipelineVars, tplVars, schedVars>>

\* After POST /api/register: a first code, the address not yet verified.
AuthInit ==
  /\ PipelineIdle
  /\ TemplateIdle
  /\ RequestIdle
  /\ SchedulerIdle
  /\ WebhookIdle
  /\ verification_code \in Codes
  /\ verification_code_expiry = TWO_FACTOR_CODE_EXPIRE_MINUTES
  /\ verification_attempts = 0
  /\ email_verified = FALSE
  /\ utc_now = 0
  /\ response = NoAnswer

AuthNext ==
  \/ Tick
  \/ ResendVerification
  \/ Login
  \/ \E code \in Codes : VerifyEmail(code)
  \/ \E code \in Codes : VerifyLogin(code)

AuthSpec == AuthInit /\ [][AuthNext]_vars

\* ===================================================================
\* Properties
\* ===================================================================
Returned == pc \in {"returned", "done"}
GeneratorEnded == gpc \in {"return", "raised"}

\* C1: every call of generate_images_with_seedream with N prompts ends by
\* returning a list of exactly N slots, whatever the per-job outcomes are: never
\* a shorter or longer list, never an exception instead of a list.
C1_ReturnsOneSlotPerPrompt ==
  GeneratorEnded => (gpc = "return" /\ Len(results) = prompts)

\* C2: a prediction that passes the deadline is canceled exactly once, and the
\* prompt's first prediction, when it does, is retried exactly once; at most two
\* predictions (two create calls) are ever made for one prompt, and when the
\* second one also passes the deadline the slot becomes null and no third
\* prediction is created.
C2_CancelOnceRetryOnce ==
  /\ Len(jobs) <= 2
  /\ slot.creates <= 2
  /\ \A j \in 1..Len(jobs) : jobs[j].cancels = (IF jobs[j].timedOut THEN 1 ELSE 0)
  /\ \A j \in 1..Len(jobs) :
       (jobs[j].timedOut /\ jobs[j].attempt = 0) =>
          \/ slot.creates = 1 /\ retry_count = 1 /\ gpc = "create" /\ slot.outcome = "pending"
          \/ slot.creates = 2
  /\ \A j \in 1..Len(jobs) :
       (jobs[j].timedOut /\ jobs[j].attempt >= 1) =>
          (slot.creates = 2 /\ slot.outcome = "null" /\ gpc # "poll")

C2_Witness ==
  /\ Len(jobs) = 2
  /\ jobs[1].timedOut
  /\ jobs[2].timedOut
  /\ slot.outcome = "null"

\* C3: when a prediction passes the deadline, cancel is requested on it before
\* the replacement is created, the replacement is a new prediction, and the
\* prediction that timed out is never reloaded again.
C3_CancelBeforeNewPrediction ==
  /\ \A j \in 1..Len(jobs) : \A k \in 1..Len(jobs) :
       (j < k /\ jobs[j].timedOut) => jobs[j].cancels >= 1
  /\ \A j \in 1..Len(jobs) : ~jobs[j].repolled
  /\ gpc = "poll" => (prediction = Len(jobs) /\ ~jobs[prediction].timedOut)

C3_Witness ==
  /\ Len(jobs) = 2
  /\ jobs[1].timedOut
  /\ gpc = "poll"
  /\ polls >= 1

\* Failures of the stages other than section-image generation.
StageFailures ==
  {"Hero image upload failed", ErrBothFormat, ErrHeroDownload, "CSS styling missing",
   "Hero section missing"}

\* C4: with the hero image available, a null slot at any position of the
\* section image list never makes the run fail: a run that fails fails for a
\* reason of another stage.
C4_NullSectionSlotNeverFailsRun ==
  (Returned /\ hero_image_tmp # None /\ None \in Range(section_images_tmp)
     /\ ret.error # "none")
    => ret.error \in StageFailures

\* C5: every call of create_blog_post_with_images_v4 terminates and returns
\* either a result with no error or no result with a reason; no exception
\* escapes it.
C5_ReturnsResultOrReason ==
  /\ <>Returned
  /\ [](Returned =>
          /\ ~ret.raised
          /\ \/ ret.result.ok /\ ret.error = "none"
             \/ ~ret.result.ok /\ ret.error # "none")

C5_Witness == Returned /\ ~ret.result.ok /\ ret.error = ErrReplace

\* C6: whenever a run fails after the Article Generator has returned a draft,
\* the raw-draft backup has already been written (at least: its write has been
\* attempted), and the formatted backup before the validation gate runs.
C6_BackupBeforeAnyLaterFailure ==
  (Returned /\ article_data.draft /\ ret.error # "none")
    => "after_step1" \in save_attempts

\* C7: when the AI-formatted strategy returns None or the empty string, the
\* orchestrator calls the template strategy without raising, and the
\* template's output, when there is one, is the final HTML the run goes on with.
C7_FallsThroughToTemplate ==
  [][(pc = "layout" /\ claude_html' \in {NoHtml, EmptyStr}) =>
       /\ template_used'
       /\ ~ret'.raised
       /\ \/ /\ template_html' \notin {NoHtml, EmptyStr}
             /\ final_html' = template_html'
             /\ pc' \in {"embed", "validate"}
          \/ /\ template_html' \in {NoHtml, EmptyStr}
             /\ pc' = "returned"
             /\ ret'.error = ErrBothFormat]_vars

C7_Witness ==
  /\ pc = "embed"
  /\ claude_html = EmptyStr
  /\ template_used
  /\ final_html = template_html
  /\ Contains(final_html, BackgroundImageMarker)

HeroSlotNull == hero_images = <<None>>

GateRan == "formatted" \in save_attempts
AllImagesPresent ==
  /\ hero_image_tmp # None
  /\ section_prompts.n = MaxSections
  /\ Len(section_images_tmp) = MaxSections
  /\ None \notin Range(section_images_tmp)

C10_SectionPromptsPaddedToSections ==
  pc = "section_images" => prompts = article_data.sections

\* Errors of the CMS stages of a remote run: image upload and post creation.
CmsFailures ==
  {"Hero image upload failed",
   "WordPress upload failed - article emailed to you for manual upload",
   "WordPress upload failed and email notification failed - contact support"}

\* C11: in remote mode, a request that generated the article and then failed
\* at a CMS image upload or at post creation has e-mailed the article to the
\* user before it returns the error.
C11_CmsFailureAlwaysEmailed ==
  (pc = "done" /\ ~local_mode /\ article_data.draft /\ hero_image_tmp # None
     /\ caller_ret.error \in CmsFailures)
    => emails >= 1

\* The document the layout stage handed to the embedding step.
LayoutHtml == IF Falsy(claude_html) THEN template_html ELSE claude_html
IsEphemeral(t) == t > None /\ t < 100
GeneratedUrls == (Range(hero_images) \cup Range(section_images_tmp)) \ {None}

\* C12: in local mode a successful run returns a document in which every
\* ephemeral URL generated in the run has been replaced by the embedded data
\* of that same image, and which contains no ephemeral URL, whichever section
\* images failed to generate or download.
C12_SuccessEmbedsEveryImage ==
  (Returned /\ local_mode /\ ret.result.ok) =>
     /\ \A t \in ret.result.content.toks : ~IsEphemeral(t)
     /\ \A u \in GeneratedUrls :
          Contains(LayoutHtml, u) => Contains(ret.result.content, B64(u))

StoryStageOver == pc # "article"
PromptStageOver == pc \notin {"article", "prompts"}

\* C17: a JSON-producing stage whose answer was not valid JSON has made
\* exactly one repair request, two requests in all, by the time the stage is
\* over.
C17_OneRepairAttempt ==
  /\ (StoryStageOver /\ story_response.kind = "bad_json") => requests.story = 2
  /\ (PromptStageOver /\ prompt_response = "bad_json") => requests.prompts = 2

\* C18: the Article Generator returns a draft exactly when the parsed answer
\* has all four top-level keys of the article shape (title, html,
\* executive_summary, components), and None when any of them is missing.
C18_DraftOnlyWithFullShape ==
  (StoryStageOver /\ story_response.kind = "json") =>
     (article_data.draft <=> ArticleShape \subseteq story_response.keys)

\* C19: the Image Prompt Generator never returns a prompt set whose number
\* of section prompts differs from the number of sections of the article.
C19_PromptCountMatchesSections ==
  (PromptStageOver /\ prompt_response = "json") =>
     section_prompts.n = article_data.sections

DanglingHeading(c) ==
  c.anchor_key = "insert_after_heading" /\ c.anchor \notin 1..h2_count
Inserted(k) == \E j \in 1..Len(soup) : soup[j].comp = k

\* C16: in the template strategy a component whose heading anchor is the
\* text of no heading of the article is not inserted, and an article whose
\* components all have such anchors is laid out exactly as the same article
\* without components.
C16_DanglingAnchorsDropped ==
  /\ \A k \in 1..Len(components) : DanglingHeading(components[k]) => ~Inserted(k)
  /\ (tpl_pc = "done" /\ \A k \in 1..Len(components) : DanglingHeading(components[k]))
       => styled_html = AssembleLayout(ArticleSoup(h2_count))

C16_Witness ==
  /\ tpl_pc = "done"
  /\ h2_count >= 1
  /\ Len(components) = MaxComponents
  /\ \A k \in 1..Len(components) :
       DanglingHeading(components[k]) /\ components[k].type \in {"case_study", "sidebar"}
  /\ styled_html = AssembleLayout(ArticleSoup(h2_count))


\* C13: whenever an article-generation request has deducted a credit and then
\* ends in an error response, the route has called refund_credits before the
\* response is returned.
C13_DeductedErrorIsRefunded ==
  \A r \in Requests :
    (rq[r].pc = "done" /\ rq[r].deducted /\ rq[r].status = 500)
      => rq[r].refund_calls >= 1

\* C20: a run in which a research call ended in an HTTP error or returned an
\* empty response never calls the Article Generator.
C20_FailedResearchAbortsBeforeGenerator ==
  \A r \in Requests : rq[r].research_failed => rq[r].generator_calls = 0


\* C14: no call to the Article Generator is made, by a manual request or by a
\* scheduled run, until a credit deduction for the user has been committed.
\* deduct_credits is called by the route only, so the committed deductions are
\* those of the requests.
C14_DeductionBeforeGenerator ==
  /\ \A r \in Requests : rq[r].generator_calls > 0 => rq[r].deducted
  /\ \A c \in Checks : chk[c].pc = "running" => \E r \in Requests : rq[r].deducted

\* C15: for each slot time of the user at most one pipeline run is ever
\* started, across repeated checks and across checks that overlap.
C15_OneRunPerSlot == \A t \in SlotTimes : pipeline_runs[t] <= 1

\* Two checks overlap on a slot both found without a job row: one has
\* inserted the row and is running the pipeline, the other is about to insert.
C15_Witness ==
  \E c, d \in Checks :
    /\ c # d
    /\ chk[c].pc = "running"
    /\ chk[d].pc = "commit"
    /\ SlotTime(chk[c].time_slot) = SlotTime(chk[d].time_slot)
    /\ pipeline_runs[SlotTime(chk[c].time_slot)] = 1


\* The media uploads of step 3.5 have been decided, every image of the run had
\* been generated and the CMS accepts every upload.
EveryExternalCallSucceeded ==
  /\ ~local_mode
  /\ hero_image_tmp # None
  /\ \A k \in 1..Len(section_images_tmp) : section_images_tmp[k] # None
  /\ wp_media = "accepts"

\* C21: in remote mode, when every external call succeeds, the run passes the
\* image-persistence stage: it does not return "Hero image upload failed" and
\* its hero image reference is the permanent CMS URL.
C21_RemotePersistencePasses ==
  EveryExternalCallSucceeded =>
    /\ ret.error # "Hero image upload failed"
    /\ hero_image_url = Perm(hero_image_tmp)


\* Check c is about to look at a slot whose job row has a NULL completed_time
\* and has been pending for more than 5 minutes at the check's time.
LongPending(c) ==
  LET scheduled == SlotTime(chk[c].time_slot) IN
  /\ chk[c].pc = "slot"
  /\ scheduled # NoTime
  /\ JobsAt(scheduled) # {}
  /\ First(JobsAt(scheduled)).completed_time = NoTime
  /\ chk[c].now - scheduled > RetryAfter

\* C22: a check that comes to a job pending for more than 5 minutes re-runs the
\* pipeline for it.
C22_LongPendingJobIsRetried ==
  [][\A c \in Checks :
       (LongPending(c) /\ chk'[c] # chk[c])
         => pipeline_runs'[SlotTime(chk[c].time_slot)]
              = pipeline_runs[SlotTime(chk[c].time_slot)] + 1]_vars


\* C23: in a request refund_credits is called only after deduct_credits
\* succeeded in the same request, and at most once.
C23_RefundOnlyAfterDeduction ==
  \A r \in Requests :
    /\ rq[r].refund_calls <= 1
    /\ rq[r].refund_calls > 0 => rq[r].deducted


\* C24: for a non-admin user credit_balance is never negative, and every
\* deduction that lets a generation start takes its own credit: the committed
\* balance goes down by ARTICLE_COST at each of them, also when the requests
\* interleave between check_sufficient_credits and deduct_credits.
C24_EveryGenerationPaysItsCredit ==
  /\ [](is_admin \/ credit_balance >= 0)
  /\ [][\A r \in Requests :
          (~is_admin /\ ~rq[r].deducted /\ rq'[r].deducted)
            => credit_balance' = credit_balance - ARTICLE_COST]_vars


C26_ReplacedJobWasCanceled ==
  [][(gpc = "create" /\ Len(jobs) >= 1 /\ Len(jobs') = Len(jobs) + 1)
       => jobs[Len(jobs)].cancels >= 1]_vars


\* C27: with auto-recharge disabled, deduct_credits followed by refund_credits
\* gives back the credit_balance and total_articles_generated the user had
\* before the deduction, for admin and non-admin users alike.
C27_RefundUndoesDeduction ==
  (\E r \in Requests : rq[r].deducted /\ rq[r].refund_calls > 0)
    => Refunded(Deducted(UserRow)) = UserRow


\* C28: a checkout-completed event grants its credits at most once per payment
\* intent: a purchase row is logged only when none exists for the intent, and
\* the committed credit_balance rises by exactly the purchased credits.
C28_PaymentGrantedOnce ==
  [][\A p \in PaymentIntents :
       purchases'[p] # purchases[p]
         => /\ purchases[p] = 0
            /\ \E s \in Sessions :
                 /\ s.payment_intent = p
                 /\ credit_balance' = credit_balance
                                      + calculate_credits_from_purchase(s.credit_amount)]_vars


\* The submission of the stored, unexpired code.
SubmitsStoredCode(code) ==
  /\ verification_code # NoCode
  /\ code = verification_code
  /\ is_code_valid(verification_code_expiry, utc_now)

\* C29: after a code is issued the user has TWO_FACTOR_MAX_ATTEMPTS submissions:
\* while the code is unexpired, the correct code succeeds on the first, second
\* and third submission since the code was issued, and every later submission
\* fails.  verification_attempts counts the submissions since the issue.
C29_ThreeAttemptsPerCode ==
  [][\A code \in Codes :
       (VerifyLogin(code) \/ (VerifyEmail(code) /\ ~email_verified))
         => /\ (SubmitsStoredCode(code) /\ verification_attempts < TWO_FACTOR_MAX_ATTEMPTS)
                 => response'.verified
            /\ verification_attempts >= TWO_FACTOR_MAX_ATTEMPTS => ~response'.verified]_vars

====
